---- MODULE Spec2Model ----
(***************************************************************************)
(* QLinearConv CPU kernel (onnxruntime/core/providers/cpu/nn/              *)
(* qlinearconv.cc): the kernel instance (PrePack), one Compute call split  *)
(* at its statements, the per-image loop and the tile workers of the       *)
(* parallel-for.                                                           *)
(*                                                                         *)
(* Tensors are modelled by what the kernel reads of them: quantization     *)
(* tensors by their dims and data, the filter by dims[0], dims[1], its     *)
(* rank and the product of its kernel dims, X by its batch size and the    *)
(* flattened output image size that shape inference resolves for it.       *)
(* SpecData follows PrePack and Compute element by element, on small 2-D   *)
(* images and filters.                                                     *)
(***************************************************************************)
EXTENDS Integers, Sequences, FiniteSets, TLC

(* ------------------------------ bounds -------------------------------- *)
MaxN == 2
MaxOis == 3
MaxDop == 2
MaxThreadOis == 70

(* ------------------------- program constants -------------------------- *)
FilterInputIdx == 3
LastInputIdx == 8
ThreadComplexity == 65536
MaxThreadCountHybrid == 64
MaxThreadCountDefault == 16

OK == "OK"
INVALID_ARGUMENT == "INVALID_ARGUMENT"

Min(a, b) == IF a < b THEN a ELSE b

(* ------------------------------ tensors ------------------------------- *)
RECURSIVE ShapeSize(_)
ShapeSize(dims) == IF dims = <<>> THEN 1 ELSE Head(dims) * ShapeSize(Tail(dims))

Tensor(dims, data) == [present |-> TRUE, dims |-> dims, data |-> data]
NoTensor == [present |-> FALSE, dims |-> <<>>, data |-> <<>>]

ConstData(n, v) == [i \in 1..n |-> v]
\* n elements, all v except the last, which is v + 1
VaryingData(n, v) == [i \in 1..n |-> IF i = n THEN v + 1 ELSE v]

IsScalarOr1ElementVector(t) ==
    \/ Len(t.dims) = 0
    \/ Len(t.dims) = 1 /\ ShapeSize(t.dims) = 1

\* The filter tensor: dims[0], dims[1], number of dims, product of dims[2..].
Filter(M, Cg, rank, ksize, int8) ==
    [dim0 |-> M, dim1 |-> Cg, rank |-> rank, ksize |-> ksize, is_int8 |-> int8]
FilterShape(w) == [dim0 |-> w.dim0, dim1 |-> w.dim1, rank |-> w.rank, ksize |-> w.ksize]
EmptyShape == [dim0 |-> 0, dim1 |-> 0, rank |-> 0, ksize |-> 1]
NoFilter == Filter(0, 0, 0, 1, FALSE)

\* kernel volumes drawn for a filter of rank >= 3: pointwise, and one large
\* enough for the thread heuristic to ask for more than one thread
KernelSizes == {1, 32768}

\* the classes of filter the kernel tells apart: group counts 1 and 2, one,
\* two or four output channels, one or two input channels per group, a
\* matrix (rank 2), a 2-D kernel (rank 4) and a 3-D kernel (rank 5)
Groups == {1, 2}
OutputChannels == {1, 2, 4}
GroupInputChannels == {1, 2}
Ranks == {2, 4, 5}

Filters ==
    { Filter(M, Cg, rank, ks, s) :
        M \in OutputChannels, Cg \in GroupInputChannels, rank \in Ranks,
        ks \in KernelSizes, s \in BOOLEAN }
AnyFilters == { w \in Filters : w.rank = 2 => w.ksize = 1 }
\* tensors offered to PrePack at an input index other than the filter's
OtherTensors == { Filter(1, 1, 2, 1, FALSE), Filter(4, 1, 4, 1, FALSE) }
\* a convolution filter has rank >= 3 and dims[0] divisible by the group count
ConvFilters(g) == { w \in AnyFilters : w.rank >= 3 /\ w.dim0 % g = 0 }
\* the filters of the calls that exercise the tile workers
TileFilters(g) == { w \in ConvFilters(g) : ~w.is_int8 }

(* --------------------------- kernel state ----------------------------- *)
VARIABLES
    group,                \* conv_attrs_.group
    channels_last_,
    strides_one_no_pad,   \* conv_attrs_.HasStridesOneAndNoPadding()
    th,                   \* the thread-count computation on its own (SpecThreads)
    W_shape_,
    is_W_signed_,
    is_W_packed_,
    packed_W_buffer_,     \* [held, nblocks, block_size]
    packed_W_size_,
    reordered_W_buffer_,  \* [held, size]
    next_input,           \* session initialization: next input offered to PrePack
    prepack_call,         \* arguments, temporaries and results of the most recent PrePack call
    filter_declined       \* PrePack was called for the filter and declined

kernelVars == <<W_shape_, is_W_signed_, is_W_packed_, packed_W_buffer_,
                packed_W_size_, reordered_W_buffer_>>
sessionVars == <<next_input, prepack_call, filter_declined>>

(* ------------------------ one Compute call ---------------------------- *)
VARIABLES
    pc,                   \* position of the Compute call
    ctx,                  \* OpKernelContext: the inputs of the call
    W_null, W_shape, is_W_signed,
    conv,                 \* ConvAttributesInFlight
    zp, sc,               \* what CheckAndGetZeroPoint / CheckAndGetScale returned and set
    Y,                    \* [requested, size, written]
    temp_alloc,           \* GetTempSpaceAllocator was called
    allocs,               \* buffers allocated from the temporary allocator
    reordered_W,          \* "null", "kernel" (reordered_W_buffer_) or "call"
    n_reorder,            \* ReorderFilter calls made by this Compute
    lv,                   \* group_count, group_input_channels, ... thread_count
    ret                   \* Status returned

callVars == <<pc, ctx, W_null, W_shape, is_W_signed, conv, zp, sc, Y, temp_alloc,
              allocs, reordered_W, n_reorder, lv, ret>>

(* ------------------------- the image loop ----------------------------- *)
VARIABLES
    image_id,
    img_pc,               \* position inside the loop body
    workers,              \* conv_worker invocations of the current parallel-for
    n_transpose_in, n_im2col_nd, n_transpose_out, n_dispatch,
    acc_w, out_w, col_w,  \* per worker: elements / intervals written
    requant_r             \* per worker: accumulator elements read by requantize

imageVars == <<image_id, img_pc, workers, n_transpose_in, n_im2col_nd,
               n_transpose_out, n_dispatch, acc_w, out_w, col_w, requant_r>>

(* --------------------- the kernel on tensor data ---------------------- *)
VARIABLES
    strides,              \* conv_attrs_.strides, the same along both axes
    shapes,               \* the shapes of X's image and of the filter in this session
    packed_W_contents,    \* what packed_W_buffer_ holds: one block per group
    reordered_W_contents, \* what reordered_W_buffer_ holds
    call,                 \* Compute on data: inputs and locals of the call
    input_data,           \* the channels-last image the workers read
    gemm_output,          \* the int32 accumulators
    output_data,          \* the channels-last requantized image
    Ydata,                \* the elements of Y
    tiles,                \* conv_worker invocations: [pc, group_id]
    gemm_calls,           \* the parameter blocks handed to MlasGemm
    completed             \* <<inputs, output>> of the Compute calls that returned

dataVars == <<strides, shapes, packed_W_contents, reordered_W_contents, call,
              input_data, gemm_output, output_data, Ydata, tiles, gemm_calls, completed>>

\* what no step of the lifecycle model changes
attrVars == <<group, channels_last_, strides_one_no_pad, th, dataVars>>

vars == <<attrVars, kernelVars, sessionVars, callVars, imageVars>>

NoTh == [done |-> FALSE, is_hybrid |-> FALSE, output_image_size |-> 0,
         group_output_channels |-> 0, kernel_dim |-> 0, dop |-> 0, thread_count |-> 0]
NoBuffer == [held |-> FALSE, nblocks |-> 0, size |-> 0]
Indeterminate == -1
NoCall == [called |-> FALSE, input_idx |-> 0, shape |-> EmptyShape,
           pack_supported |-> FALSE, is_packed |-> FALSE, status |-> OK]
NoCtx == [N |-> 0, ois |-> 0, W |-> NoFilter, dop |-> 1,
          X_zero_point |-> NoTensor, W_zero_point |-> NoTensor, Y_zero_point |-> NoTensor,
          X_scale |-> NoTensor, W_scale |-> NoTensor, Y_scale |-> NoTensor]
NoConv == [N |-> 0, M |-> 0, C |-> 0, group |-> 0, kernel_rank |-> 0,
           output_image_size |-> 0, kernel_size |-> 0, Y_dims |-> <<>>]
NoCheck == [done |-> FALSE, status |-> OK, msg |-> "", X |-> 0, Y |-> 0, W |-> 0, scales |-> <<>>]
NoY == [requested |-> FALSE, size |-> 0, dims |-> <<>>, written |-> FALSE]
NoLocals == [group_count |-> 0, group_input_channels |-> 0, group_output_channels |-> 0,
             is_depthwise_conv |-> FALSE, kernel_dim |-> 0, col_buffer |-> "none",
             col_size |-> 0, thread_count |-> 0]

NoDataCall == [pc |-> "idle"]

\* no tensor data is followed
DataInit ==
    /\ strides = 1 /\ shapes = <<>>
    /\ packed_W_contents = <<>> /\ reordered_W_contents = <<>>
    /\ call = NoDataCall
    /\ input_data = <<>> /\ gemm_output = <<>> /\ output_data = <<>> /\ Ydata = <<>>
    /\ tiles = <<>> /\ gemm_calls = {} /\ completed = {}

CallInit ==
    /\ pc = "idle" /\ ctx = NoCtx
    /\ W_null = TRUE /\ W_shape = EmptyShape /\ is_W_signed = FALSE
    /\ conv = NoConv /\ zp = NoCheck /\ sc = NoCheck /\ Y = NoY
    /\ temp_alloc = FALSE /\ allocs = {} /\ reordered_W = "null" /\ n_reorder = 0
    /\ lv = NoLocals /\ ret = "none"

ImageInit ==
    /\ image_id = 0 /\ img_pc = "none" /\ workers = <<>>
    /\ n_transpose_in = 0 /\ n_im2col_nd = 0 /\ n_transpose_out = 0 /\ n_dispatch = 0
    /\ acc_w = <<>> /\ out_w = <<>> /\ col_w = <<>> /\ requant_r = <<>>

\* QLinearConv::QLinearConv: is_W_signed_(false), is_W_packed_(false); the
\* buffers are empty and packed_W_size_ is left uninitialized.
Init ==
    /\ group \in Groups
    /\ channels_last_ \in BOOLEAN
    /\ strides_one_no_pad \in BOOLEAN
    /\ th = NoTh
    /\ DataInit
    /\ W_shape_ = EmptyShape
    /\ is_W_signed_ = FALSE
    /\ is_W_packed_ = FALSE
    /\ packed_W_buffer_ = NoBuffer
    /\ packed_W_size_ = Indeterminate
    /\ reordered_W_buffer_ = NoBuffer
    /\ next_input = 0
    /\ prepack_call = NoCall
    /\ filter_declined = FALSE
    /\ CallInit
    /\ ImageInit

(* ------------------------------ PrePack ------------------------------- *)
PrePackDeclines_NoGroupCheck(input_idx, w) ==
    \/ input_idx # FilterInputIdx
    \/ w.rank <= 2

\* lines 206-218: the early returns that leave the kernel untouched
PrePackDeclines(input_idx, w) ==
    \/ input_idx # FilterInputIdx
    \/ w.rank <= 2
    \/ w.dim0 % group # 0

ShouldPack_Always(group_input_channels, group_output_channels) == TRUE

\* line 238
ShouldPack(group_input_channels, group_output_channels) ==
    group_input_channels # 1 /\ group_output_channels # 1

\* MlasGemmPackBSize(N, K, true): 0 when the target has no packed kernel
MlasGemmPackBSize(n, k, supported) == IF supported THEN n * k ELSE 0

PrePack(w, pack_supported) ==
    /\ pc = "idle"
    /\ next_input <= LastInputIdx
    /\ next_input' = next_input + 1
    /\ UNCHANGED <<attrVars, callVars, imageVars>>
    /\ IF PrePackDeclines(next_input, w)
         THEN /\ UNCHANGED kernelVars
              /\ prepack_call' = [called |-> TRUE, input_idx |-> next_input,
                                  shape |-> FilterShape(w), pack_supported |-> pack_supported,
                                  is_packed |-> FALSE, status |-> OK]
              /\ filter_declined' = (filter_declined \/ next_input = FilterInputIdx)
         ELSE LET output_channels == w.dim0
                  group_input_channels == w.dim1
                  kernel_size == w.ksize
                  group_count == group
                  group_output_channels == output_channels \div group_count
                  kernel_dim == group_input_channels * kernel_size
                  try_pack == ShouldPack(group_input_channels, group_output_channels)
                  size == IF try_pack
                            THEN MlasGemmPackBSize(group_output_channels, kernel_dim, pack_supported)
                            ELSE packed_W_size_
              IN  /\ W_shape_' = FilterShape(w)
                  /\ is_W_signed_' = w.is_int8
                  /\ packed_W_size_' = size
                  /\ IF try_pack /\ size # 0
                       THEN /\ packed_W_buffer_' = [held |-> TRUE, nblocks |-> group_count,
                                                    size |-> group_count * size]
                            /\ UNCHANGED reordered_W_buffer_
                       ELSE /\ reordered_W_buffer_' =
                                   [held |-> TRUE, nblocks |-> 1,
                                    size |-> output_channels * group_input_channels * kernel_size]
                            /\ UNCHANGED packed_W_buffer_
                  /\ is_W_packed_' = TRUE
                  /\ prepack_call' = [called |-> TRUE, input_idx |-> next_input,
                                      shape |-> FilterShape(w), pack_supported |-> pack_supported,
                                      is_packed |-> TRUE, status |-> OK]
                  /\ UNCHANGED filter_declined

\* the input at next_input is not a constant initializer: PrePack is not called for it
SkipInput ==
    /\ pc = "idle"
    /\ next_input <= LastInputIdx
    /\ next_input' = next_input + 1
    /\ prepack_call' = NoCall
    /\ UNCHANGED <<attrVars, kernelVars, filter_declined, callVars, imageVars>>

(* --------------------- quantization parameters ------------------------ *)
CheckResult(status, msg, x, y, w, scales) ==
    [done |-> TRUE, status |-> status, msg |-> msg, X |-> x, Y |-> y, W |-> w, scales |-> scales]

\* lines 278-316; X, Y, W are the out-parameters, 0 when not assigned
\* (Compute initializes them to 0, lines 369-371)
CheckAndGetZeroPoint(X_zero_point, W_zero_point, Y_zero_point, M) ==
    IF ~IsScalarOr1ElementVector(X_zero_point)
      THEN CheckResult(INVALID_ARGUMENT, "input zero point must be a scalar or 1D tensor of size 1",
                       0, 0, 0, <<>>)
    ELSE LET x == X_zero_point.data[1] IN
    IF Y_zero_point.present /\ ~IsScalarOr1ElementVector(Y_zero_point)
      THEN CheckResult(INVALID_ARGUMENT, "result zero point must be a scalar or 1D tensor of size 1",
                       x, 0, 0, <<>>)
    ELSE LET y == IF Y_zero_point.present THEN Y_zero_point.data[1] ELSE 0
             dims == W_zero_point.dims IN
    IF Len(dims) = 0 \/ (Len(dims) = 1 /\ (dims[1] = 1 \/ dims[1] = M))
      THEN LET W_zero_point_size == ShapeSize(dims)
               w == W_zero_point.data[1]
           IN  IF \E i \in 2..W_zero_point_size : W_zero_point.data[i] # w
                 THEN CheckResult(INVALID_ARGUMENT, "filter zero point must be constant", x, y, w, <<>>)
                 ELSE CheckResult(OK, "", x, y, w, <<>>)
      ELSE CheckResult(INVALID_ARGUMENT, "filter zero point shape invalid", x, y, 0, <<>>)

\* lines 318-355; scale values are modelled as integers (the inputs drawn are
\* all 1, so the quotient is exact); X, Y default to 1 (lines 380-381)
CheckAndGetScale(X_scale, W_scale, Y_scale, M) ==
    IF ~IsScalarOr1ElementVector(X_scale)
      THEN CheckResult(INVALID_ARGUMENT, "input scale must be a scalar or 1D tensor of size 1",
                       1, 1, 0, <<>>)
    ELSE LET x == X_scale.data[1] IN
    IF Y_scale.present /\ ~IsScalarOr1ElementVector(Y_scale)
      THEN CheckResult(INVALID_ARGUMENT, "result scale must be a scalar or 1D tensor of size 1",
                       x, 1, 0, <<>>)
    ELSE LET y == IF Y_scale.present THEN Y_scale.data[1] ELSE 1
             dims == W_scale.dims IN
    IF Len(dims) = 0 \/ (Len(dims) = 1 /\ (dims[1] = 1 \/ dims[1] = M))
      THEN LET W_scale_size == ShapeSize(dims)
           IN  CheckResult(OK, "", x, y, 0,
                   [i \in 1..W_scale_size |->
                       IF Y_scale.present THEN (x * W_scale.data[i]) \div y
                                          ELSE x * W_scale.data[i]])
      ELSE CheckResult(INVALID_ARGUMENT, "filter scale shape invalid", x, y, 0, <<>>)

(* ---------------------- the inputs of a call -------------------------- *)
Scalar(v) == Tensor(<<>>, <<v>>)
Vec(n, v) == Tensor(<<n>>, ConstData(n, v))

QuantBase ==
    [X_zero_point |-> Scalar(0), W_zero_point |-> Scalar(0), Y_zero_point |-> Scalar(0),
     X_scale |-> Scalar(1), W_scale |-> Scalar(1), Y_scale |-> Scalar(1)]

\* the scalar form, and every form that differs from it in one tensor
QuantInputs(M) ==
    {QuantBase}
    \cup { [QuantBase EXCEPT !.X_zero_point = t] : t \in {Vec(1, 0), Vec(2, 0)} }
    \cup { [QuantBase EXCEPT !.Y_zero_point = t] : t \in {NoTensor, Vec(2, 0)} }
    \cup { [QuantBase EXCEPT !.W_zero_point = t] :
              t \in {Vec(M, 0), Tensor(<<M>>, VaryingData(M, 0)), Vec(M + 1, 0),
                     Tensor(<<1, M>>, ConstData(M, 0))} }
    \cup { [QuantBase EXCEPT !.X_scale = t] : t \in {Vec(1, 1), Vec(2, 1)} }
    \cup { [QuantBase EXCEPT !.Y_scale = t] : t \in {NoTensor, Vec(2, 1)} }
    \cup { [QuantBase EXCEPT !.W_scale = t] : t \in {Vec(M, 1), Vec(M + 1, 1)} }

Context(N, ois, w, dop, q) ==
    [N |-> N, ois |-> ois, W |-> w, dop |-> dop,
     X_zero_point |-> q.X_zero_point, W_zero_point |-> q.W_zero_point,
     Y_zero_point |-> q.Y_zero_point,
     X_scale |-> q.X_scale, W_scale |-> q.W_scale, Y_scale |-> q.Y_scale]

\* "lifecycle" calls: every quantization form, on a single-threaded pool, for
\* one image of at most one output position, and for an empty batch.
\* "tiles" calls: the scalar form on every pool and geometry within the bounds.
Contexts(mode, w, M) ==
    IF mode = "tiles"
      THEN { Context(N, ois, w, dop, QuantBase) :
                N \in 0..MaxN, ois \in 0..MaxOis, dop \in 1..MaxDop }
      ELSE { Context(1, ois, w, 1, q) : ois \in 0..1, q \in QuantInputs(M) }
           \cup { Context(0, 1, w, 1, QuantBase) }
DynamicFilters(mode, g) == IF mode = "tiles" THEN TileFilters(g) ELSE ConvFilters(g)

(* ------------------------------ Compute ------------------------------- *)
\* lines 16-67, with X's channel count C = dims[1] of the filter times group
ConvAttributesInFlight(N, ois, shape) ==
    [N |-> N, M |-> shape.dim0, C |-> shape.dim1 * group, group |-> group,
     kernel_rank |-> shape.rank - 2,
     output_image_size |-> ois, kernel_size |-> shape.ksize,
     Y_dims |-> IF channels_last_ THEN <<N, ois, shape.dim0>> ELSE <<N, shape.dim0, ois>>]

\* lines 358-363
ComputeBegin(mode) ==
    /\ pc = "idle"
    /\ next_input > LastInputIdx
    /\ \E w \in (IF is_W_packed_ THEN {NoFilter} ELSE DynamicFilters(mode, group)) :
       \E c \in Contexts(mode, w, IF is_W_packed_ THEN W_shape_.dim0 ELSE w.dim0) :
          /\ ctx' = c
          /\ W_null' = is_W_packed_
          /\ W_shape' = IF is_W_packed_ THEN W_shape_ ELSE FilterShape(w)
          /\ is_W_signed' = IF is_W_packed_ THEN is_W_signed_ ELSE w.is_int8
          /\ conv' = ConvAttributesInFlight(c.N, c.ois, W_shape')
    /\ pc' = "zero_point"
    /\ prepack_call' = NoCall
    /\ UNCHANGED <<attrVars, kernelVars, next_input, filter_declined, imageVars,
                   zp, sc, Y, temp_alloc, allocs, reordered_W, n_reorder, lv, ret>>

\* lines 365-373: the Status that CheckAndGetZeroPoint returns is not used
ComputeZeroPoint ==
    /\ pc = "zero_point"
    /\ zp' = CheckAndGetZeroPoint(ctx.X_zero_point, ctx.W_zero_point, ctx.Y_zero_point, conv.M)
    /\ pc' = "scale"
    /\ UNCHANGED <<attrVars, kernelVars, sessionVars, imageVars, ctx, W_null, W_shape,
                   is_W_signed, conv, sc, Y, temp_alloc, allocs, reordered_W, n_reorder, lv, ret>>

\* lines 375-384: the Status that CheckAndGetScale returns is not used
ComputeScale ==
    /\ pc = "scale"
    /\ sc' = CheckAndGetScale(ctx.X_scale, ctx.W_scale, ctx.Y_scale, conv.M)
    /\ pc' = "output"
    /\ UNCHANGED <<attrVars, kernelVars, sessionVars, imageVars, ctx, W_null, W_shape,
                   is_W_signed, conv, zp, Y, temp_alloc, allocs, reordered_W, n_reorder, lv, ret>>

IsEmptyOutput_BatchOnly(dims) == dims[1] = 0

\* line 391: Y->Shape().Size() == 0
IsEmptyOutput(dims) == ShapeSize(dims) = 0

\* lines 386-393
ComputeOutput ==
    /\ pc = "output"
    /\ Y' = [requested |-> TRUE, size |-> ShapeSize(conv.Y_dims), dims |-> conv.Y_dims,
             written |-> FALSE]
    /\ IF IsEmptyOutput(conv.Y_dims)
         THEN pc' = "done" /\ ret' = OK
         ELSE pc' = "weights" /\ UNCHANGED ret
    /\ UNCHANGED <<attrVars, kernelVars, sessionVars, imageVars, ctx, W_null, W_shape,
                   is_W_signed, conv, zp, sc, temp_alloc, allocs, reordered_W, n_reorder, lv>>

\* lines 395-416
ComputeWeights ==
    /\ pc = "weights"
    /\ temp_alloc' = TRUE
    /\ IF ~packed_W_buffer_.held
         THEN IF W_null
                THEN reordered_W' = "kernel" /\ UNCHANGED <<allocs, n_reorder>>
                ELSE /\ reordered_W' = "call"
                     /\ allocs' = allocs \cup {"reordered_W"}
                     /\ n_reorder' = n_reorder + 1
         ELSE reordered_W' = "null" /\ UNCHANGED <<allocs, n_reorder>>
    /\ pc' = "setup"
    /\ UNCHANGED <<attrVars, kernelVars, sessionVars, imageVars, ctx, W_null, W_shape,
                   is_W_signed, conv, zp, sc, Y, lv, ret>>

\* lines 131-158, with IsHybrid() as a parameter; the products and the
\* quotient are exact in double for the values within an int32 thread count
ComputeMaxThreadCount_NoOutputCap(output_image_size, group_output_channels, kernel_dim, hybrid) ==
    LET maximum_thread_count == IF hybrid THEN MaxThreadCountHybrid ELSE MaxThreadCountDefault
        complexity == output_image_size * group_output_channels * kernel_dim
    IN  IF complexity < ThreadComplexity * maximum_thread_count
          THEN (complexity \div ThreadComplexity) + 1
          ELSE maximum_thread_count

ComputeMaxThreadCount(output_image_size, group_output_channels, kernel_dim, hybrid) ==
    LET maximum_thread_count == IF hybrid THEN MaxThreadCountHybrid ELSE MaxThreadCountDefault
        complexity == output_image_size * group_output_channels * kernel_dim
        thread_count == IF complexity < ThreadComplexity * maximum_thread_count
                          THEN (complexity \div ThreadComplexity) + 1
                          ELSE maximum_thread_count
    IN  IF thread_count > output_image_size THEN output_image_size ELSE thread_count

\* lines 476-477
ThreadCount(output_image_size, group_output_channels, kernel_dim, hybrid, dop) ==
    Min(ComputeMaxThreadCount(output_image_size, group_output_channels, kernel_dim, hybrid), dop)

IsDepthwiseConv_Either(rW, group_input_channels, group_output_channels) ==
    rW # "null" /\ (group_input_channels = 1 \/ group_output_channels = 1)

\* line 423
IsDepthwiseConv(rW, group_input_channels, group_output_channels) ==
    rW # "null" /\ group_input_channels = 1 /\ group_output_channels = 1

NeedsTranspose_Always(channels_last) == TRUE

\* lines 451, 483, 639
NeedsTranspose(channels_last) == ~channels_last

\* lines 418-477
ComputeSetup ==
    /\ pc = "setup"
    /\ \E hybrid \in BOOLEAN :
         LET group_input_channels0 == W_shape.dim1
             group_output_channels0 == conv.M \div conv.group
             is_depthwise_conv ==
                 IsDepthwiseConv(reordered_W, group_input_channels0, group_output_channels0)
             group_count == IF is_depthwise_conv THEN 1 ELSE conv.group
             group_input_channels == IF is_depthwise_conv THEN conv.group ELSE group_input_channels0
             group_output_channels == IF is_depthwise_conv THEN conv.group ELSE group_output_channels0
             kernel_dim == group_input_channels * conv.kernel_size
             col_buffer_size == kernel_dim * conv.output_image_size
             col_buffer == IF is_depthwise_conv THEN "indirect"
                           ELSE IF conv.kernel_size # 1 \/ ~strides_one_no_pad THEN "im2col"
                           ELSE "none"
         IN  /\ lv' = [group_count |-> group_count,
                       group_input_channels |-> group_input_channels,
                       group_output_channels |-> group_output_channels,
                       is_depthwise_conv |-> is_depthwise_conv,
                       kernel_dim |-> kernel_dim,
                       col_buffer |-> col_buffer,
                       col_size |-> IF col_buffer = "indirect"
                                      THEN conv.kernel_size * conv.output_image_size
                                    ELSE IF col_buffer = "im2col"
                                      THEN (IF conv.kernel_rank > 2 THEN group_count * col_buffer_size
                                                                    ELSE col_buffer_size)
                                    ELSE 0,
                       thread_count |-> ThreadCount(conv.output_image_size, group_output_channels,
                                                    kernel_dim, hybrid, ctx.dop)]
             /\ allocs' = allocs \cup {"gemm_output"}
                    \cup (IF NeedsTranspose(channels_last_)
                            THEN {"transpose_input", "transpose_output"} ELSE {})
                    \cup (IF col_buffer # "none" THEN {"col_buffer"} ELSE {})
    /\ pc' = "images"
    /\ image_id' = 0
    /\ img_pc' = "begin"
    /\ UNCHANGED <<attrVars, kernelVars, sessionVars, ctx, W_null, W_shape, is_W_signed, conv,
                   zp, sc, Y, temp_alloc, reordered_W, n_reorder, ret,
                   workers, n_transpose_in, n_im2col_nd, n_transpose_out, n_dispatch,
                   acc_w, out_w, col_w, requant_r>>

(* ------------------------- the image loop ----------------------------- *)
\* concurrency::ThreadPool::PartitionWork: the batch_idx-th of num_batches
\* contiguous ranges of [0, total_work), the first total_work % num_batches
\* of them one longer
PartitionWork(batch_idx, num_batches, total_work) ==
    LET work_per_batch == total_work \div num_batches
        work_per_batch_extra == total_work % num_batches
        start == IF batch_idx < work_per_batch_extra
                   THEN (work_per_batch + 1) * batch_idx
                   ELSE work_per_batch * batch_idx + work_per_batch_extra
    IN  [start |-> start,
         end |-> IF batch_idx < work_per_batch_extra THEN start + work_per_batch + 1
                                                     ELSE start + work_per_batch]

WorkerOutputOffset_Unstrided(output_start, M) == output_start

\* lines 519-520: gemm_output + output_start * M, output_data + output_start * M
WorkerOutputOffset(output_start, M) == output_start * M

\* lines 523, 554: the worker's part of the indirection / column buffer
WorkerColOffset(output_start, row_size) == output_start * row_size

\* the elements of a rows x cols block at offset base in a buffer of leading dimension ld
Block(base, rows, cols, ld) == { base + r * ld + c : r \in 0..(rows - 1), c \in 0..(cols - 1) }

\* line 496
NeedsNdIm2col == ~lv.is_depthwise_conv /\ lv.col_buffer # "none" /\ conv.kernel_rank > 2

\* lines 479-492
ImageTransposeIn ==
    /\ pc = "images" /\ img_pc = "begin"
    /\ image_id < conv.N
    /\ n_transpose_in' = n_transpose_in + (IF NeedsTranspose(channels_last_) THEN 1 ELSE 0)
    /\ img_pc' = "im2col"
    /\ UNCHANGED <<attrVars, kernelVars, sessionVars, callVars, image_id, workers,
                   n_im2col_nd, n_transpose_out, n_dispatch, acc_w, out_w, col_w, requant_r>>

\* lines 494-512
ImageIm2col ==
    /\ pc = "images" /\ img_pc = "im2col"
    /\ n_im2col_nd' = n_im2col_nd + (IF NeedsNdIm2col THEN 1 ELSE 0)
    /\ img_pc' = "dispatch"
    /\ UNCHANGED <<attrVars, kernelVars, sessionVars, callVars, image_id, workers,
                   n_transpose_in, n_transpose_out, n_dispatch, acc_w, out_w, col_w, requant_r>>

NewWorker == [pc |-> "start", group_id |-> 0, output_start |-> 0, output_count |-> 0]

\* line 637: TrySimpleParallelFor starts conv_worker(0 .. thread_count - 1)
ImageDispatch ==
    /\ pc = "images" /\ img_pc = "dispatch"
    /\ workers' = [b \in 1..lv.thread_count |-> NewWorker]
    /\ acc_w' = [b \in 1..lv.thread_count |-> {}]
    /\ out_w' = [b \in 1..lv.thread_count |-> {}]
    /\ col_w' = [b \in 1..lv.thread_count |-> {}]
    /\ requant_r' = [b \in 1..lv.thread_count |-> {}]
    /\ n_dispatch' = n_dispatch + lv.thread_count
    /\ img_pc' = "tiles"
    /\ UNCHANGED <<attrVars, kernelVars, sessionVars, callVars, image_id,
                   n_transpose_in, n_im2col_nd, n_transpose_out>>

\* where a worker goes when it is about to handle group group_id
GroupStage(group_id) ==
    IF group_id >= lv.group_count THEN "requant"
    ELSE IF lv.col_buffer = "im2col" /\ conv.kernel_rank \in {1, 2} THEN "im2col"
    ELSE "gemm"

workerFrame == <<attrVars, kernelVars, sessionVars, image_id, img_pc,
                 n_transpose_in, n_im2col_nd, n_transpose_out, n_dispatch>>
callButY == <<pc, ctx, W_null, W_shape, is_W_signed, conv, zp, sc, temp_alloc,
              allocs, reordered_W, n_reorder, lv, ret>>

\* lines 515-520
WorkerStart(b) ==
    /\ pc = "images" /\ img_pc = "tiles"
    /\ workers[b].pc = "start"
    /\ LET work == PartitionWork(b - 1, lv.thread_count, conv.output_image_size)
       IN  workers' = [workers EXCEPT ![b] =
                          [pc |-> IF lv.is_depthwise_conv THEN "im2col" ELSE GroupStage(0),
                           group_id |-> 0,
                           output_start |-> work.start,
                           output_count |-> work.end - work.start]]
    /\ UNCHANGED <<workerFrame, callVars, acc_w, out_w, col_w, requant_r>>

\* lines 523-537 (indirection buffer) and 553-594 (rank-1 and rank-2 im2col)
WorkerIm2col(b) ==
    /\ pc = "images" /\ img_pc = "tiles"
    /\ workers[b].pc = "im2col"
    /\ LET w == workers[b]
           row_size == IF lv.is_depthwise_conv THEN conv.kernel_size ELSE lv.kernel_dim
           lo == WorkerColOffset(w.output_start, row_size)
       IN  /\ col_w' = [col_w EXCEPT ![b] = @ \cup {<<lo, lo + w.output_count * row_size>>}]
           /\ workers' = [workers EXCEPT ![b].pc =
                             IF lv.is_depthwise_conv THEN "depthwise" ELSE "gemm"]
    /\ UNCHANGED <<workerFrame, callVars, acc_w, out_w, requant_r>>

\* lines 538-547: MlasConvDepthwise writes output_count rows of M channels
WorkerDepthwise(b) ==
    /\ pc = "images" /\ img_pc = "tiles"
    /\ workers[b].pc = "depthwise"
    /\ LET w == workers[b]
       IN  acc_w' = [acc_w EXCEPT ![b] =
                        @ \cup Block(WorkerOutputOffset(w.output_start, conv.M),
                                     w.output_count, conv.M, conv.M)]
    /\ workers' = [workers EXCEPT ![b].pc = "requant"]
    /\ UNCHANGED <<workerFrame, callVars, out_w, col_w, requant_r>>

\* lines 604-622: MlasGemm writes an output_count x group_output_channels
\* block at column group_id * group_output_channels, leading dimension M
WorkerGemm(b) ==
    /\ pc = "images" /\ img_pc = "tiles"
    /\ workers[b].pc = "gemm"
    /\ LET w == workers[b]
       IN  /\ acc_w' = [acc_w EXCEPT ![b] =
                           @ \cup Block(WorkerOutputOffset(w.output_start, conv.M)
                                           + w.group_id * lv.group_output_channels,
                                        w.output_count, lv.group_output_channels, conv.M)]
           /\ workers' = [workers EXCEPT ![b].group_id = w.group_id + 1,
                                         ![b].pc = GroupStage(w.group_id + 1)]
    /\ UNCHANGED <<workerFrame, callVars, out_w, col_w, requant_r>>

\* lines 626-634: MlasRequantizeOutput reads and writes output_count rows of M
WorkerRequantize(b) ==
    /\ pc = "images" /\ img_pc = "tiles"
    /\ workers[b].pc = "requant"
    /\ LET w == workers[b]
           rows == Block(WorkerOutputOffset(w.output_start, conv.M), w.output_count, conv.M, conv.M)
       IN  /\ requant_r' = [requant_r EXCEPT ![b] = @ \cup rows]
           /\ out_w' = [out_w EXCEPT ![b] = @ \cup rows]
    /\ Y' = IF NeedsTranspose(channels_last_) THEN Y ELSE [Y EXCEPT !.written = TRUE]
    /\ workers' = [workers EXCEPT ![b].pc = "done"]
    /\ UNCHANGED <<workerFrame, callButY, acc_w, col_w>>

\* the workers of a parallel-for run in any order and interleaving
StartStep == \E b \in DOMAIN workers : WorkerStart(b)
Im2colStep == \E b \in DOMAIN workers : WorkerIm2col(b)
DepthwiseStep == \E b \in DOMAIN workers : WorkerDepthwise(b)
GemmStep == \E b \in DOMAIN workers : WorkerGemm(b)
RequantizeStep == \E b \in DOMAIN workers : WorkerRequantize(b)

AllWorkersDone == \A b \in DOMAIN workers : workers[b].pc = "done"

\* line 637: TrySimpleParallelFor returns when every conv_worker has returned
ImageJoin ==
    /\ pc = "images" /\ img_pc = "tiles"
    /\ AllWorkersDone
    /\ img_pc' = "transpose_out"
    /\ UNCHANGED <<attrVars, kernelVars, sessionVars, callVars, image_id, workers,
                   n_transpose_in, n_im2col_nd, n_transpose_out, n_dispatch,
                   acc_w, out_w, col_w, requant_r>>

\* lines 639-652
ImageTransposeOut ==
    /\ pc = "images" /\ img_pc = "transpose_out"
    /\ n_transpose_out' = n_transpose_out + (IF NeedsTranspose(channels_last_) THEN 1 ELSE 0)
    /\ Y' = IF NeedsTranspose(channels_last_) THEN [Y EXCEPT !.written = TRUE] ELSE Y
    /\ image_id' = image_id + 1
    /\ IF image_id + 1 < conv.N
         THEN img_pc' = "begin" /\ UNCHANGED <<pc, ret>>
         ELSE img_pc' = "end" /\ pc' = "done" /\ ret' = OK
    /\ UNCHANGED <<attrVars, kernelVars, sessionVars, ctx, W_null, W_shape, is_W_signed, conv,
                   zp, sc, temp_alloc, allocs, reordered_W, n_reorder, lv,
                   workers, n_transpose_in, n_im2col_nd, n_dispatch,
                   acc_w, out_w, col_w, requant_r>>

\* Compute has returned: its locals and temporary buffers are gone
ComputeReturn ==
    /\ pc = "done"
    /\ pc' = "idle" /\ ctx' = NoCtx
    /\ W_null' = TRUE /\ W_shape' = EmptyShape /\ is_W_signed' = FALSE
    /\ conv' = NoConv /\ zp' = NoCheck /\ sc' = NoCheck /\ Y' = NoY
    /\ temp_alloc' = FALSE /\ allocs' = {} /\ reordered_W' = "null" /\ n_reorder' = 0
    /\ lv' = NoLocals /\ ret' = "none"
    /\ image_id' = 0 /\ img_pc' = "none" /\ workers' = <<>>
    /\ n_transpose_in' = 0 /\ n_im2col_nd' = 0 /\ n_transpose_out' = 0 /\ n_dispatch' = 0
    /\ acc_w' = <<>> /\ out_w' = <<>> /\ col_w' = <<>> /\ requant_r' = <<>>
    /\ UNCHANGED <<attrVars, kernelVars, sessionVars>>

\* session initialization offers each constant input to PrePack once, in order
PrePackStep(filters) ==
    \E w \in (IF next_input = FilterInputIdx THEN filters ELSE OtherTensors),
       pack_supported \in BOOLEAN : PrePack(w, pack_supported)

Next ==
    \/ PrePackStep(AnyFilters)
    \/ SkipInput
    \/ ComputeBegin("lifecycle")
    \/ ComputeZeroPoint
    \/ ComputeScale
    \/ ComputeOutput
    \/ ComputeWeights
    \/ ComputeSetup
    \/ ImageTransposeIn
    \/ ImageIm2col
    \/ ImageDispatch
    \/ StartStep
    \/ Im2colStep
    \/ DepthwiseStep
    \/ GemmStep
    \/ RequantizeStep
    \/ ImageJoin
    \/ ImageTransposeOut
    \/ ComputeReturn

Spec == Init /\ [][Next]_vars

\* the same kernel, called with the inputs that exercise the tile workers
NextTiles ==
    \/ PrePackStep(TileFilters(group))
    \/ SkipInput
    \/ ComputeBegin("tiles")
    \/ ComputeZeroPoint
    \/ ComputeScale
    \/ ComputeOutput
    \/ ComputeWeights
    \/ ComputeSetup
    \/ ImageTransposeIn
    \/ ImageIm2col
    \/ ImageDispatch
    \/ StartStep
    \/ Im2colStep
    \/ DepthwiseStep
    \/ GemmStep
    \/ RequantizeStep
    \/ ImageJoin
    \/ ImageTransposeOut
    \/ ComputeReturn

SpecTiles == Init /\ [][NextTiles]_vars

(* -------------------- the thread count on its own --------------------- *)
\* Inputs of lines 475-477 in a call that gets there: the output is not
\* empty (line 391), so output_image_size >= 1 and there is at least one
\* output channel per group and one element per im2col row; a pool's degree
\* of parallelism is at least 1.
ThreadChannels == {1, 2, 64}
ThreadKernelDims == {1, 1024, 32768, 65536}
ThreadDops == {1, 2, 16, 17, 64, 65, 100}

InitThreads ==
    /\ group = 1 /\ channels_last_ = FALSE /\ strides_one_no_pad = FALSE
    /\ \E h \in BOOLEAN, ois \in 1..MaxThreadOis, goc \in ThreadChannels,
          kd \in ThreadKernelDims, dop \in ThreadDops :
          th = [done |-> FALSE, is_hybrid |-> h, output_image_size |-> ois,
                group_output_channels |-> goc, kernel_dim |-> kd, dop |-> dop,
                thread_count |-> 0]
    /\ DataInit
    /\ W_shape_ = EmptyShape /\ is_W_signed_ = FALSE /\ is_W_packed_ = FALSE
    /\ packed_W_buffer_ = NoBuffer /\ packed_W_size_ = Indeterminate
    /\ reordered_W_buffer_ = NoBuffer
    /\ next_input = 0 /\ prepack_call = NoCall /\ filter_declined = FALSE
    /\ CallInit
    /\ ImageInit

\* lines 475-477
ComputeThreadCount ==
    /\ ~th.done
    /\ th' = [th EXCEPT !.done = TRUE,
                        !.thread_count = ThreadCount(th.output_image_size, th.group_output_channels,
                                                     th.kernel_dim, th.is_hybrid, th.dop)]
    /\ UNCHANGED <<group, channels_last_, strides_one_no_pad, dataVars, kernelVars,
                   sessionVars, callVars, imageVars>>

NextThreads == ComputeThreadCount

SpecThreads == InitThreads /\ [][NextThreads]_vars

(* ===================== the kernel on tensor data ====================== *)
\* Buffers are sequences addressed from 0, as the pointers of the source are.
At(buffer, i) == buffer[i + 1]
Slice(buffer, offset, n) == [i \in 1..n |-> buffer[offset + i]]
RECURSIVE Sum(_, _)
Sum(f, S) == IF S = {} THEN 0 ELSE LET x == CHOOSE y \in S : TRUE IN f[x] + Sum(f, S \ {x})

ReorderIndex_SwappedStrides(oc, ic, k, input_channels, kernel_size) ==
    (oc * input_channels * kernel_size) + (k * input_channels) + ic

\* line 108
ReorderIndex(oc, ic, k, input_channels, kernel_size) ==
    (oc * input_channels * kernel_size) + (ic * kernel_size) + k

\* lines 105-112: the loop nest, appending at *output++
RECURSIVE ReorderLoop(_, _, _, _, _, _, _, _)
ReorderLoop(input, output, k, ic, oc, output_channels, input_channels, kernel_size) ==
    IF k >= kernel_size THEN output
    ELSE IF ic >= input_channels
      THEN ReorderLoop(input, output, k + 1, 0, 0, output_channels, input_channels, kernel_size)
    ELSE IF oc >= output_channels
      THEN ReorderLoop(input, output, k, ic + 1, 0, output_channels, input_channels, kernel_size)
    ELSE ReorderLoop(input,
                     Append(output, At(input, ReorderIndex(oc, ic, k, input_channels, kernel_size))),
                     k, ic, oc + 1, output_channels, input_channels, kernel_size)

\* lines 100-113
ReorderFilter(input, output_channels, input_channels, kernel_size) ==
    ReorderLoop(input, <<>>, 0, 0, 0, output_channels, input_channels, kernel_size)

\* MlasGemmPackB(N, K, B, ldb): the K x N matrix B in the backend's packed
\* layout, here column after column
MlasGemmPackB(N, K, B, ldb) ==
    [i \in 1..(N * K) |-> At(B, ((i - 1) % K) * ldb + ((i - 1) \div K))]

\* element (k, n) of a packed K x N block, as the packed kernels of MlasGemm read it
PackedB(block, K, k, n) == At(block, n * K + k)

\* line 259: Wdata += W_offset, once per group
GroupOffset(group_id, W_offset) == group_id * W_offset

\* lines 253-256: group_reordered_W in the iteration of group group_id
GroupReorderedW(Wdata, group_id, group_output_channels, group_input_channels, kernel_size) ==
    LET W_offset == group_output_channels * group_input_channels * kernel_size
    IN  ReorderFilter(Slice(Wdata, GroupOffset(group_id, W_offset), W_offset),
                      group_output_channels, group_input_channels, kernel_size)

\* lines 255-260: the packed block of every group
PackGroups(Wdata, group_count, group_output_channels, group_input_channels, kernel_size) ==
    [g \in 1..group_count |->
        MlasGemmPackB(group_output_channels, group_input_channels * kernel_size,
                      GroupReorderedW(Wdata, g - 1, group_output_channels,
                                      group_input_channels, kernel_size),
                      group_output_channels)]

\* MlasTranspose(input, output, M, N): the M x N matrix input, transposed
MlasTranspose(input, M, N) ==
    [i \in 1..(M * N) |-> At(input, ((i - 1) % M) * N + ((i - 1) \div M))]

\* ConvAttributes::InferOutputShape along one axis, without padding or dilation
InferOutputDim(in, kernel, stride) == ((in - kernel) \div stride) + 1

KernelSize_FirstAxis(kernel_shape) == kernel_shape[1]

\* line 66: kernel_size = TensorShape(kernel_shape).Size()
KernelSize(kernel_shape) == kernel_shape[1] * kernel_shape[2]

\* lines 16-67 for a 2-D convolution; X_dims and W_dims are the tensors' dims
ConvAttributes2D(X_dims, W_dims, channels_last, group_count, stride) ==
    LET kernel_shape == <<W_dims[3], W_dims[4]>>
        kernel_rank == 2
        spatial_dim_start == IF channels_last THEN 1 ELSE 2
        input_shape == <<X_dims[spatial_dim_start + 1], X_dims[spatial_dim_start + 2]>>
        output_shape == <<InferOutputDim(input_shape[1], kernel_shape[1], stride),
                          InferOutputDim(input_shape[2], kernel_shape[2], stride)>>
        N == X_dims[1]
        M == W_dims[1]
    IN  [N |-> N, M |-> M,
         C |-> X_dims[(IF channels_last THEN 1 + kernel_rank ELSE 1) + 1],
         group |-> group_count, kernel_rank |-> kernel_rank,
         input_shape |-> input_shape, output_shape |-> output_shape,
         kernel_shape |-> kernel_shape, stride |-> stride,
         Y_dims |-> IF channels_last THEN <<N>> \o output_shape \o <<M>>
                                     ELSE <<N, M>> \o output_shape,
         input_image_size |-> input_shape[1] * input_shape[2],
         output_image_size |-> output_shape[1] * output_shape[2],
         kernel_size |-> KernelSize(kernel_shape)]

\* math::Im2col<uint8_t, StorageOrder::NHWC>: the offset in the channels-last
\* image of input pixel (kernel position k) of output position p
Im2colPixel(cv, p, k) ==
    LET oy == p \div cv.output_shape[2]
        ox == p % cv.output_shape[2]
        ky == k \div cv.kernel_shape[2]
        kx == k % cv.kernel_shape[2]
    IN  ((oy * cv.stride + ky) * cv.input_shape[2] + (ox * cv.stride + kx)) * cv.C

\* the offset in the image of element kd of the im2col row of output position
\* p, for the group_input_channels channels that start at channel first_channel
Im2colElement(cv, first_channel, group_input_channels, p, kd) ==
    Im2colPixel(cv, p, kd \div group_input_channels) + first_channel + (kd % group_input_channels)

\* MlasRequantizeOutput for one accumulator: scale, add the zero point, saturate
MlasRequantize(acc, scale, zero_point) ==
    LET v == acc * scale + zero_point
    IN  IF v < 0 THEN 0 ELSE IF v > 255 THEN 255 ELSE v

(* ----------------------- the inputs of a session ---------------------- *)
\* image and kernel extents, and the stride: a 2 x 2 kernel on a 3 x 3 image,
\* a pointwise kernel on a 1 x 2 image, a pointwise kernel with stride 2 on a
\* 1 x 3 image
DataGeometries ==
    { [input |-> <<3, 3>>, kernel |-> <<2, 2>>, stride |-> 1],
      [input |-> <<1, 2>>, kernel |-> <<1, 1>>, stride |-> 1],
      [input |-> <<1, 3>>, kernel |-> <<1, 1>>, stride |-> 2] }

DataShapes(g) ==
    { [input |-> geo.input, kernel |-> geo.kernel, M |-> M, Cg |-> Cg] :
        geo \in { x \in DataGeometries : x.stride = strides },
        M \in { m \in OutputChannels : m % g = 0 }, Cg \in GroupInputChannels }

Ramp(n) == [i \in 1..n |-> i]

\* one image whose elements are all 2, or 1, 2, 3, ... in the tensor's order
DataInputs ==
    LET C == shapes.Cg * group
        dims == IF channels_last_ THEN <<1>> \o shapes.input \o <<C>>
                                  ELSE <<1, C>> \o shapes.input
    IN  { Tensor(dims, data) : data \in {ConstData(ShapeSize(dims), 2), Ramp(ShapeSize(dims))} }

\* a filter whose elements are all 1, or 1, 2, 3, ...
DataFilters ==
    LET dims == <<shapes.M, shapes.Cg>> \o shapes.kernel
    IN  { Tensor(dims, data) : data \in {ConstData(ShapeSize(dims), 1), Ramp(ShapeSize(dims))} }

FilterOf(W_dims) == Filter(W_dims[1], W_dims[2], Len(W_dims), W_dims[3] * W_dims[4], FALSE)

InitData ==
    /\ group \in Groups
    /\ channels_last_ \in BOOLEAN
    /\ strides \in {1, 2}
    /\ strides_one_no_pad = (strides = 1)
    /\ shapes \in DataShapes(group)
    /\ th = NoTh
    /\ packed_W_contents = <<>> /\ reordered_W_contents = <<>>
    /\ call = NoDataCall
    /\ input_data = <<>> /\ gemm_output = <<>> /\ output_data = <<>> /\ Ydata = <<>>
    /\ tiles = <<>> /\ gemm_calls = {} /\ completed = {}
    /\ W_shape_ = <<>> /\ is_W_signed_ = FALSE /\ is_W_packed_ = FALSE
    /\ packed_W_buffer_ = NoBuffer /\ packed_W_size_ = Indeterminate
    /\ reordered_W_buffer_ = NoBuffer
    /\ next_input = FilterInputIdx /\ prepack_call = NoCall /\ filter_declined = FALSE
    /\ CallInit
    /\ ImageInit

dataFrame == <<group, channels_last_, strides_one_no_pad, th, strides, shapes,
               filter_declined, callVars, imageVars>>
dataKernel == <<kernelVars, packed_W_contents, reordered_W_contents>>
dataBuffers == <<input_data, gemm_output, output_data, Ydata>>

(* ------------------------- PrePack on data ---------------------------- *)
\* lines 202-276, for the filter tensor
DataPrePack(W, pack_supported) ==
    /\ call.pc = "idle"
    /\ next_input = FilterInputIdx
    /\ next_input' = LastInputIdx + 1
    /\ UNCHANGED <<dataFrame, dataBuffers, call, tiles, gemm_calls, completed>>
    /\ IF PrePackDeclines(FilterInputIdx, FilterOf(W.dims))
         THEN /\ UNCHANGED dataKernel
              /\ prepack_call' = [called |-> TRUE, input_idx |-> FilterInputIdx,
                                  shape |-> W.dims, pack_supported |-> pack_supported,
                                  is_packed |-> FALSE, status |-> OK, W |-> W,
                                  group_reordered_W |-> <<>>]
         ELSE LET output_channels == W.dims[1]
                  group_input_channels == W.dims[2]
                  kernel_size == W.dims[3] * W.dims[4]
                  group_count == group
                  group_output_channels == output_channels \div group_count
                  kernel_dim == group_input_channels * kernel_size
                  try_pack == ShouldPack(group_input_channels, group_output_channels)
                  size == IF try_pack
                            THEN MlasGemmPackBSize(group_output_channels, kernel_dim, pack_supported)
                            ELSE packed_W_size_
              IN  /\ W_shape_' = W.dims
                  /\ is_W_signed_' = FALSE
                  /\ packed_W_size_' = size
                  /\ IF try_pack /\ size # 0
                       THEN /\ packed_W_buffer_' = [held |-> TRUE, nblocks |-> group_count,
                                                    size |-> group_count * size]
                            /\ packed_W_contents' =
                                   PackGroups(W.data, group_count, group_output_channels,
                                              group_input_channels, kernel_size)
                            /\ UNCHANGED <<reordered_W_buffer_, reordered_W_contents>>
                       ELSE /\ reordered_W_buffer_' =
                                   [held |-> TRUE, nblocks |-> 1,
                                    size |-> output_channels * group_input_channels * kernel_size]
                            /\ reordered_W_contents' =
                                   ReorderFilter(W.data, output_channels, group_input_channels,
                                                 kernel_size)
                            /\ UNCHANGED <<packed_W_buffer_, packed_W_contents>>
                  /\ is_W_packed_' = TRUE
                  /\ prepack_call' = [called |-> TRUE, input_idx |-> FilterInputIdx,
                                      shape |-> W.dims, pack_supported |-> pack_supported,
                                      is_packed |-> TRUE, status |-> OK, W |-> W,
                                      group_reordered_W |->
                                          IF try_pack /\ size # 0
                                            THEN [g \in 1..group_count |->
                                                    GroupReorderedW(W.data, g - 1,
                                                        group_output_channels,
                                                        group_input_channels, kernel_size)]
                                            ELSE <<>>]

DataPrePackStep == \E W \in DataFilters, pack_supported \in BOOLEAN : DataPrePack(W, pack_supported)

(* ------------------------- Compute on data ---------------------------- *)
\* an accumulator or output element that has not been written
Unwritten(n) == ConstData(n, Indeterminate)

\* lines 357-512 and the dispatch of line 637, for a batch of one image. The
\* operands followed element by element are far smaller than the 65536
\* multiply-adds per thread of lines 131-158, so thread_count ranges over
\* every value lines 476-477 yield for an image of this many output positions.
DataComputeBegin ==
    /\ call.pc = "idle"
    /\ next_input >= FilterInputIdx
    /\ next_input' = LastInputIdx + 1
    /\ \E X \in DataInputs, W \in (IF is_W_packed_ THEN {NoTensor} ELSE DataFilters),
          dop \in 1..MaxDop :
         LET W_shape_dims == IF W.present THEN W.dims ELSE W_shape_
             cv == ConvAttributes2D(X.dims, W_shape_dims, channels_last_, group, strides)
             zpr == CheckAndGetZeroPoint(QuantBase.X_zero_point, QuantBase.W_zero_point,
                                         QuantBase.Y_zero_point, cv.M)
             scr == CheckAndGetScale(QuantBase.X_scale, QuantBase.W_scale,
                                     QuantBase.Y_scale, cv.M)
             from == IF packed_W_buffer_.held THEN "null"
                     ELSE IF ~W.present THEN "kernel" ELSE "call"
             rW == IF from = "kernel" THEN reordered_W_contents
                   ELSE IF from = "call"
                     THEN ReorderFilter(W.data, cv.M, W_shape_dims[2], cv.kernel_size)
                   ELSE <<>>
             group_input_channels0 == W_shape_dims[2]
             group_output_channels0 == cv.M \div cv.group
             is_depthwise_conv ==
                 IsDepthwiseConv(from, group_input_channels0, group_output_channels0)
             group_count == IF is_depthwise_conv THEN 1 ELSE cv.group
             group_input_channels == IF is_depthwise_conv THEN cv.group ELSE group_input_channels0
             group_output_channels == IF is_depthwise_conv THEN cv.group ELSE group_output_channels0
             kernel_dim == group_input_channels * cv.kernel_size
             col_buffer == IF is_depthwise_conv THEN "indirect"
                           ELSE IF cv.kernel_size # 1 \/ ~strides_one_no_pad THEN "im2col"
                           ELSE "none"
             Y_offset == cv.M * cv.output_image_size
         IN  \E thread_count \in 1..Min(cv.output_image_size, dop) :
               /\ call' = [pc |-> "tiles", X |-> X, W |-> W, conv |-> cv, zp |-> zpr, sc |-> scr,
                           reordered_from |-> from, reordered_W |-> rW,
                           is_depthwise_conv |-> is_depthwise_conv,
                           group_count |-> group_count,
                           group_input_channels |-> group_input_channels,
                           group_output_channels |-> group_output_channels,
                           kernel_dim |-> kernel_dim, col_buffer |-> col_buffer,
                           thread_count |-> thread_count]
               /\ input_data' = IF NeedsTranspose(channels_last_)
                                  THEN MlasTranspose(X.data, cv.C, cv.input_image_size)
                                  ELSE X.data
               /\ gemm_output' = Unwritten(Y_offset)
               /\ output_data' = IF NeedsTranspose(channels_last_) THEN Unwritten(Y_offset) ELSE <<>>
               /\ Ydata' = Unwritten(ShapeSize(cv.Y_dims))
               /\ tiles' = [b \in 1..thread_count |-> [pc |-> "conv", group_id |-> 0]]
    /\ gemm_calls' = {}
    /\ UNCHANGED <<dataFrame, dataKernel, prepack_call, completed>>

\* lines 515-517
TileWork(b) == PartitionWork(b - 1, call.thread_count, call.conv.output_image_size)

\* the elements of buffer at the offsets in DOMAIN values replaced by values
WriteAll(buffer, values) ==
    [i \in 1..Len(buffer) |-> IF (i - 1) \in DOMAIN values THEN values[i - 1] ELSE buffer[i]]

\* lines 522-547: the indirection buffer and MlasConvDepthwise, which sets
\* Output[p * Channels + c] to the sum over the kernel of
\* (Input[p][k][c] - zero point) * (Filter[k * Channels + c] - zero point)
DataWorkerDepthwise(b) ==
    /\ call.pc = "tiles"
    /\ tiles[b].pc = "conv"
    /\ call.is_depthwise_conv
    /\ LET cv == call.conv
           output_start == TileWork(b).start
           output_count == TileWork(b).end - TileWork(b).start
           base == WorkerOutputOffset(output_start, cv.M)
           acc(r, c) ==
               Sum([k \in 0..(cv.kernel_size - 1) |->
                       (At(input_data, Im2colPixel(cv, output_start + r, k) + c) - call.zp.X)
                       * (At(call.reordered_W, k * cv.M + c) - call.zp.W)],
                   0..(cv.kernel_size - 1))
       IN  gemm_output' = WriteAll(gemm_output,
               [i \in { base + r * cv.M + c : r \in 0..(output_count - 1), c \in 0..(cv.M - 1) } |->
                   acc((i - base) \div cv.M, (i - base) % cv.M)])
    /\ tiles' = [tiles EXCEPT ![b].pc = "requant"]
    /\ UNCHANGED <<dataFrame, dataKernel, sessionVars, call, input_data, output_data, Ydata,
                   gemm_calls, completed>>

\* lines 601 and 609: A and lda of the in-place pointwise path
WorkerGemmInput(output_start, kernel_dim, C, group_id, group_input_channels) ==
    [base |-> output_start * kernel_dim, lda |-> kernel_dim]

ReorderedB_NoGroupOffset(reordered, group_id, group_output_channels, ldb, k, n) ==
    At(reordered, k * ldb + n)

\* lines 615-616: element (k, n) of B = reordered_W + group_id * group_output_channels
ReorderedB(reordered, group_id, group_output_channels, ldb, k, n) ==
    At(reordered, group_id * group_output_channels + k * ldb + n)

\* lines 549-622 for one group: the A operand (im2col rows, or the image in
\* place), the B operand (packed block or reordered filter) and MlasGemm,
\* which sets C[r * ldc + n] to the sum over k of
\* (A[r * lda + k] - ZeroPointA) * (B[k][n] - ZeroPointB)
DataWorkerGemm(b) ==
    /\ call.pc = "tiles"
    /\ tiles[b].pc = "conv"
    /\ ~call.is_depthwise_conv
    /\ LET cv == call.conv
           group_id == tiles[b].group_id
           output_start == TileWork(b).start
           output_count == TileWork(b).end - TileWork(b).start
           in_place == WorkerGemmInput(output_start, call.kernel_dim, cv.C, group_id,
                                       call.group_input_channels)
           \* offset in input_data of A[r][k]
           A == [r \in 0..(output_count - 1) |-> [k \in 0..(call.kernel_dim - 1) |->
                   IF call.col_buffer = "im2col"
                     THEN Im2colElement(cv, group_id * call.group_input_channels,
                                        call.group_input_channels, output_start + r, k)
                     ELSE in_place.base + r * in_place.lda + k]]
           B(k, n) == IF packed_W_buffer_.held
                        THEN PackedB(packed_W_contents[group_id + 1], call.kernel_dim, k, n)
                        ELSE ReorderedB(call.reordered_W, group_id, call.group_output_channels,
                                        cv.M, k, n)
           base == WorkerOutputOffset(output_start, cv.M) + group_id * call.group_output_channels
           ldc == cv.M
           acc(r, n) ==
               Sum([k \in 0..(call.kernel_dim - 1) |->
                       (At(input_data, A[r][k]) - call.zp.X) * (B(k, n) - call.zp.W)],
                   0..(call.kernel_dim - 1))
       IN  /\ gemm_output' = WriteAll(gemm_output,
                 [i \in { base + r * ldc + n : r \in 0..(output_count - 1),
                                               n \in 0..(call.group_output_channels - 1) } |->
                     acc((i - base) \div ldc, (i - base) % ldc)])
           /\ gemm_calls' = gemm_calls \cup
                 {[batch |-> b, group_id |-> group_id, output_start |-> output_start,
                   output_count |-> output_count, A |-> A,
                   BIsPacked |-> packed_W_buffer_.held]}
           /\ tiles' = [tiles EXCEPT ![b].group_id = group_id + 1,
                                     ![b].pc = IF group_id + 1 < call.group_count
                                                 THEN "conv" ELSE "requant"]
    /\ UNCHANGED <<dataFrame, dataKernel, sessionVars, call, input_data, output_data, Ydata,
                   completed>>

\* lines 626-634: the worker's rows of accumulators, requantized into Y
\* (channels last) or into the transpose buffer
DataWorkerRequantize(b) ==
    /\ call.pc = "tiles"
    /\ tiles[b].pc = "requant"
    /\ LET cv == call.conv
           output_start == TileWork(b).start
           output_count == TileWork(b).end - TileWork(b).start
           base == WorkerOutputOffset(output_start, cv.M)
           scales == call.sc.scales
           out == [i \in { base + r * cv.M + n : r \in 0..(output_count - 1),
                                                 n \in 0..(cv.M - 1) } |->
                      IF At(gemm_output, i) = Indeterminate THEN Indeterminate
                      ELSE MlasRequantize(At(gemm_output, i),
                                          IF Len(scales) > 1 THEN scales[((i - base) % cv.M) + 1]
                                                             ELSE scales[1],
                                          call.zp.Y)]
       IN  IF NeedsTranspose(channels_last_)
             THEN output_data' = WriteAll(output_data, out) /\ UNCHANGED Ydata
             ELSE Ydata' = WriteAll(Ydata, out) /\ UNCHANGED output_data
    /\ tiles' = [tiles EXCEPT ![b].pc = "done"]
    /\ UNCHANGED <<dataFrame, dataKernel, sessionVars, call, input_data, gemm_output,
                   gemm_calls, completed>>

DataDepthwiseStep == \E b \in DOMAIN tiles : DataWorkerDepthwise(b)
DataGemmStep == \E b \in DOMAIN tiles : DataWorkerGemm(b)
DataRequantizeStep == \E b \in DOMAIN tiles : DataWorkerRequantize(b)

\* lines 637-652: the parallel-for has returned; the output is transposed to
\* channels first, and Compute returns
DataComputeEnd ==
    /\ call.pc = "tiles"
    /\ \A b \in DOMAIN tiles : tiles[b].pc = "done"
    /\ Ydata' = IF NeedsTranspose(channels_last_)
                  THEN MlasTranspose(output_data, call.conv.output_image_size, call.conv.M)
                  ELSE Ydata
    /\ call' = [call EXCEPT !.pc = "done"]
    /\ UNCHANGED <<dataFrame, dataKernel, sessionVars, input_data, gemm_output, output_data,
                   tiles, gemm_calls, completed>>

\* the caller has the output; the call's buffers are released
DataComputeReturn ==
    /\ call.pc = "done"
    /\ completed' = completed \cup {<<[X |-> call.X, W |-> call.W], Ydata>>}
    /\ call' = NoDataCall
    /\ input_data' = <<>> /\ gemm_output' = <<>> /\ output_data' = <<>> /\ Ydata' = <<>>
    /\ tiles' = <<>> /\ gemm_calls' = {}
    /\ UNCHANGED <<dataFrame, dataKernel, sessionVars>>

NextData ==
    \/ DataPrePackStep
    \/ DataComputeBegin
    \/ DataDepthwiseStep
    \/ DataGemmStep
    \/ DataRequantizeStep
    \/ DataComputeEnd
    \/ DataComputeReturn

SpecData == InitData /\ [][NextData]_vars

(* ============================== claims ================================ *)
Returned == pc = "done"
\* lv, the buffers and thread_count are set (lines 418-477 have run)
SetupDone == pc = "images" \/ (pc = "done" /\ img_pc = "end")
\* lines 395-416 have run
WeightsDone == pc \in {"setup", "images"} \/ (pc = "done" /\ temp_alloc)

FilterZeroPointVaries ==
    /\ ctx.W_zero_point.present
    /\ ctx.W_zero_point.dims = <<conv.M>>
    /\ \E i, j \in 1..conv.M : ctx.W_zero_point.data[i] # ctx.W_zero_point.data[j]

\* C1: a Compute call whose filter zero-point tensor has length M and holds
\* two distinct values returns InvalidArgument.
C1_VaryingFilterZeroPointRejected ==
    (Returned /\ FilterZeroPointVaries) => ret = INVALID_ARGUMENT

ValidationFailed == zp.status # OK \/ sc.status # OK

\* C2: a Compute call in which zero-point or scale validation fails reports
\* the failure, and returns without having requested the output tensor,
\* asked for the temporary allocator, allocated a buffer, dispatched a tile
\* or written an output element.
C2_ValidationFailureHasNoEffect ==
    (Returned /\ ValidationFailed) =>
        /\ ret = INVALID_ARGUMENT
        /\ ~Y.requested /\ ~Y.written
        /\ ~temp_alloc /\ allocs = {}
        /\ n_dispatch = 0

\* the most recent PrePack call was for a filter PrePack takes, whose groups
\* are not depthwise-eligible
PrePackedGenericFilter ==
    /\ prepack_call.called
    /\ prepack_call.input_idx = 3
    /\ prepack_call.shape.rank > 2
    /\ prepack_call.shape.dim0 % group = 0
    /\ ~(prepack_call.shape.dim1 = 1 /\ prepack_call.shape.dim0 \div group = 1)

\* C3: after PrePack of such a filter the packed representation (one block
\* per group) is held exactly when the backend's pack size is not zero, and
\* the reordered one exactly when it is zero.
C3_GenericFilterPackedWhenSupported ==
    PrePackedGenericFilter =>
        LET pack_size == MlasGemmPackBSize(prepack_call.shape.dim0 \div group,
                                           prepack_call.shape.dim1 * prepack_call.shape.ksize,
                                           prepack_call.pack_supported)
        IN
        /\ packed_W_buffer_.held <=> pack_size # 0
        /\ reordered_W_buffer_.held <=> pack_size = 0
        /\ packed_W_buffer_.held => packed_W_buffer_.nblocks = group

\* C4: in every state of the kernel instance at most one of the packed and
\* the reordered buffer is held, is_W_packed_ is true exactly when one is
\* held, and the packed buffer is never held for a filter with one input and
\* one output channel per group.
C4_WeightRepresentationExclusive ==
    /\ ~(packed_W_buffer_.held /\ reordered_W_buffer_.held)
    /\ is_W_packed_ <=> (packed_W_buffer_.held \/ reordered_W_buffer_.held)
    /\ packed_W_buffer_.held => ~(W_shape_.dim1 = 1 /\ W_shape_.dim0 \div group = 1)

C4_Witness ==
    /\ prepack_call.called /\ prepack_call.is_packed
    /\ packed_W_buffer_.held /\ packed_W_buffer_.nblocks = 2

\* C5: Compute takes the depthwise path exactly when the filter has one input
\* channel per group and M / group = 1, whatever the weight state; it then
\* runs with group_count 1 and the group count as both channel counts, and no
\* worker runs the group loop's matrix multiply; otherwise no worker runs the
\* depthwise primitive.
C5_DepthwiseExactlyWhenEligible ==
    SetupDone =>
        LET eligible == W_shape.dim1 = 1 /\ conv.M \div conv.group = 1
        IN  /\ lv.is_depthwise_conv <=> eligible
            /\ eligible =>
                  /\ lv.group_count = 1
                  /\ lv.group_input_channels = conv.group
                  /\ lv.group_output_channels = conv.group
                  /\ \A b \in DOMAIN workers : workers[b].pc # "gemm" /\ workers[b].group_id = 0
            /\ ~eligible =>
                  /\ lv.group_count = conv.group
                  /\ lv.group_input_channels = W_shape.dim1
                  /\ lv.group_output_channels = conv.M \div conv.group
                  /\ \A b \in DOMAIN workers : workers[b].pc # "depthwise"

\* a prepacked, reordered depthwise filter of two groups, its worker past the
\* depthwise primitive
C5_Witness ==
    /\ SetupDone /\ W_null /\ reordered_W = "kernel"
    /\ lv.is_depthwise_conv /\ conv.group = 2
    /\ \E b \in DOMAIN workers : workers[b].pc = "requant"

\* the step is a PrePack call that must decline
DecliningPrePack ==
    /\ next_input' = next_input + 1
    /\ prepack_call'.called
    /\ \/ prepack_call'.input_idx # 3
       \/ prepack_call'.shape.rank <= 2
       \/ prepack_call'.shape.dim0 % group # 0

\* C6: a PrePack call for another input than the filter, for a filter of rank
\* <= 2 or for one whose output channels the group count does not divide
\* returns OK with is_packed false and changes no field of the kernel; a
\* Compute call on a kernel that holds no prepacked filter takes the filter
\* from its input and, once past the empty-output exit, has reordered it into
\* a buffer of the call.
C6_DeclineLeavesKernelUnchanged ==
    /\ [][DecliningPrePack =>
            /\ UNCHANGED kernelVars
            /\ ~prepack_call'.is_packed
            /\ prepack_call'.status = OK
            /\ filter_declined' = (filter_declined \/ prepack_call'.input_idx = 3)]_vars
    /\ []((filter_declined /\ pc # "idle") =>
            /\ ~is_W_packed_
            /\ ~W_null /\ W_shape = FilterShape(ctx.W) /\ is_W_signed = ctx.W.is_int8)
    /\ []((filter_declined /\ WeightsDone) =>
            /\ reordered_W = "call"
            /\ "reordered_W" \in allocs
            /\ n_reorder = 1)

C6_Witness ==
    /\ filter_declined /\ pc = "images"
    /\ reordered_W = "call" /\ n_reorder = 1
    /\ W_shape_ = EmptyShape

\* C7: when a dimension of the resolved output shape is zero Compute returns
\* OK right after requesting the output: the output is the empty tensor of
\* that shape, and no allocator request, buffer, reorder, transpose, im2col
\* or tile has been made.
C7_EmptyOutputReturnsEarly ==
    (Y.requested /\ \E i \in DOMAIN conv.Y_dims : conv.Y_dims[i] = 0) =>
        /\ Returned /\ ret = OK
        /\ Y.dims = conv.Y_dims /\ Y.size = 0 /\ ~Y.written
        /\ ~temp_alloc /\ allocs = {}
        /\ n_reorder = 0 /\ n_transpose_in = 0 /\ n_im2col_nd = 0 /\ n_transpose_out = 0
        /\ n_dispatch = 0 /\ workers = <<>>

\* an image with no output position, in a batch of one
C7_Witness ==
    /\ Returned /\ ret = OK /\ Y.requested /\ Y.size = 0
    /\ conv.N = 1 /\ conv.output_image_size = 0

\* C8: the thread count t of the parallel-for is
\* min(floor(complexity / 65536) + 1, cap, output_image_size, pool degree of
\* parallelism), cap 64 on a hybrid CPU and 16 otherwise, so 1 <= t and each
\* of the t tiles holds at least one output position.
C8_ThreadCountBounded ==
    th.done =>
        LET cap == IF th.is_hybrid THEN 64 ELSE 16
            complexity == th.output_image_size * th.group_output_channels * th.kernel_dim
            t == th.thread_count
        IN  /\ 1 <= t
            /\ t <= cap /\ t <= th.output_image_size /\ t <= th.dop
            /\ t = Min(Min((complexity \div 65536) + 1, cap), Min(th.output_image_size, th.dop))
            /\ \A b \in 0..(t - 1) :
                  PartitionWork(b, t, th.output_image_size).start
                      < PartitionWork(b, t, th.output_image_size).end

\* the heuristic asks for more threads than there are output positions
C8_Witness ==
    /\ th.done
    /\ (th.output_image_size * th.group_output_channels * th.kernel_dim) \div 65536 + 1
          > th.output_image_size
    /\ th.thread_count = th.output_image_size /\ th.thread_count > 1
    /\ th.dop > th.output_image_size

Tile(b) == PartitionWork(b - 1, lv.thread_count, conv.output_image_size)
Started(b) == workers[b].pc # "start"
Overlap(i, j) == i[1] < j[2] /\ j[1] < i[2]
TilesRunning == pc = "images" /\ img_pc \in {"tiles", "transpose_out"}

\* C9: within one image the tiles are contiguous, pairwise disjoint and cover
\* [0, output_image_size); under every interleaving no two workers write the
\* same element of the accumulator, of the output buffer or of the column /
\* indirection buffer; a worker requantizes exactly the accumulator elements
\* it wrote, and when all have returned the output rows are all written.
C9_TilesDisjoint ==
    TilesRunning =>
        LET t == lv.thread_count
            ois == conv.output_image_size
        IN  /\ DOMAIN workers = 1..t
            /\ Tile(1).start = 0 /\ Tile(t).end = ois
            /\ \A b \in 1..t : Tile(b).start < Tile(b).end
            /\ \A b \in 1..(t - 1) : Tile(b).end = Tile(b + 1).start
            /\ \A b \in 1..t : Started(b) =>
                  /\ workers[b].output_start = Tile(b).start
                  /\ workers[b].output_count = Tile(b).end - Tile(b).start
            /\ \A b1, b2 \in 1..t : b1 # b2 =>
                  /\ acc_w[b1] \cap acc_w[b2] = {}
                  /\ out_w[b1] \cap out_w[b2] = {}
                  /\ \A i \in col_w[b1], j \in col_w[b2] : ~Overlap(i, j)
            /\ \A b \in 1..t : workers[b].pc = "done" =>
                  /\ requant_r[b] = acc_w[b]
                  /\ out_w[b] = { e \in 0..(ois * conv.M - 1) :
                                    e \div conv.M \in Tile(b).start..(Tile(b).end - 1) }
            /\ AllWorkersDone =>
                  UNION { out_w[b] : b \in 1..t } = 0..(ois * conv.M - 1)

\* two workers of a two-group convolution have returned, one still runs
C9_Witness ==
    /\ TilesRunning /\ lv.thread_count = 2 /\ lv.group_count = 2
    /\ conv.output_image_size = 3
    /\ workers[1].pc = "done" /\ workers[2].pc = "requant"
    /\ col_w[1] # {} /\ col_w[2] # {}

\* the whole-image im2col of line 496 is due for this call
NdIm2colDue == conv.kernel_rank >= 3 /\ ~lv.is_depthwise_conv /\ lv.col_buffer # "none"

\* C10: images are processed one after the other. While the tiles of image i
\* run, the input of image i has been transposed and (kernel rank >= 3) its
\* im2col is complete, and the output of image i has not been transposed;
\* outside the parallel-for no worker is running, so the output transpose and
\* every step of image i + 1 come after all tiles of image i have been
\* requantized; in channel-last layout no transpose is made.
C10_ImagesSequential ==
    SetupDone =>
        LET in_body == img_pc \in {"im2col", "dispatch", "tiles", "transpose_out"}
            dispatched == img_pc \in {"tiles", "transpose_out"}
        IN  /\ image_id <= conv.N
            /\ img_pc = "end" <=> image_id = conv.N
            /\ channels_last_ =>
                  /\ n_transpose_in = 0 /\ n_transpose_out = 0
                  /\ allocs \cap {"transpose_input", "transpose_output"} = {}
            /\ ~channels_last_ =>
                  /\ n_transpose_in = image_id + (IF in_body THEN 1 ELSE 0)
                  /\ n_transpose_out = image_id
            /\ n_im2col_nd = IF NdIm2colDue
                               THEN image_id + (IF img_pc \in {"dispatch", "tiles", "transpose_out"}
                                                  THEN 1 ELSE 0)
                               ELSE 0
            /\ n_dispatch = lv.thread_count * (image_id + (IF dispatched THEN 1 ELSE 0))
            /\ img_pc # "tiles" => AllWorkersDone
            /\ ~channels_last_ => (Y.written <=> n_transpose_out > 0)

\* the tiles of the second image run, the first image transposed out
C10_Witness ==
    /\ pc = "images" /\ img_pc = "tiles" /\ image_id = 1
    /\ ~channels_last_ /\ n_transpose_out = 1 /\ n_transpose_in = 2
    /\ NdIm2colDue /\ n_im2col_nd = 2
    /\ lv.thread_count = 2
    /\ workers[1].pc = "done" /\ workers[2].pc = "gemm"

(* ------------------------- claims on tensor data ----------------------- *)
\* the offsets ReorderFilter reads, in the order of its writes
ReorderReads(OC, IC, K) == ReorderFilter([i \in 1..(OC * IC * K) |-> i - 1], OC, IC, K)

\* output is input (both of OC x IC x K elements), reordered from
\* output-channel-major to kernel-major, each element moved exactly once
IsKernelMajorReorder(output, input, OC, IC, K) ==
    LET n == OC * IC * K
        reads == ReorderReads(OC, IC, K)
    IN  /\ Len(output) = n /\ Len(reads) = n
        /\ \A k \in 0..(K - 1), ic \in 0..(IC - 1), oc \in 0..(OC - 1) :
              /\ At(output, (k * IC + ic) * OC + oc) = At(input, (oc * IC + ic) * K + k)
              /\ At(reads, (k * IC + ic) * OC + oc) = (oc * IC + ic) * K + k
        /\ \A i \in 0..(n - 1) : Cardinality({ j \in 1..n : reads[j] = i }) = 1

\* C14: ReorderFilter(input, output, OC, IC, K) sets
\* output[(k * IC + ic) * OC + oc] = input[(oc * IC + ic) * K + k] for every
\* k < K, ic < IC, oc < OC, writing each output position and reading each
\* input position exactly once; PrePack's packing loop applies it to each
\* group's own slice of the filter, which starts at
\* g * group-output-channels * group-input-channels * kernel volume.
C14_ReorderFilterIsPermutation ==
    /\ reordered_W_buffer_.held =>
          IsKernelMajorReorder(reordered_W_contents, prepack_call.W.data,
                               W_shape_[1], W_shape_[2], W_shape_[3] * W_shape_[4])
    /\ (call.pc # "idle" /\ call.reordered_from = "call") =>
          IsKernelMajorReorder(call.reordered_W, call.W.data,
                               call.W.dims[1], call.W.dims[2], call.conv.kernel_size)
    /\ packed_W_buffer_.held =>
          LET goc == W_shape_[1] \div group
              gic == W_shape_[2]
              K == W_shape_[3] * W_shape_[4]
          IN  /\ Len(prepack_call.group_reordered_W) = group
              /\ \A g \in 0..(group - 1) :
                    IsKernelMajorReorder(prepack_call.group_reordered_W[g + 1],
                                         Slice(prepack_call.W.data, g * goc * gic * K,
                                               goc * gic * K),
                                         goc, gic, K)

\* the packing loop has run for a two-group filter of distinct elements with
\* several input channels, output channels and kernel positions per group
C14_Witness ==
    /\ packed_W_buffer_.held /\ group = 2
    /\ prepack_call.W.data = Ramp(Len(prepack_call.W.data))
    /\ W_shape_[1] = 4 /\ W_shape_[2] = 2 /\ W_shape_[3] * W_shape_[4] = 4
    /\ Len(prepack_call.group_reordered_W) = 2

\* the call is on the in-place pointwise path: no column buffer
InPlacePointwise ==
    /\ call.pc \in {"tiles", "done"}
    /\ ~call.is_depthwise_conv
    /\ call.col_buffer = "none"

\* C15: on the in-place pointwise path, for every tile, group g and output
\* position p of the tile, the A operand row of the matrix multiply for p is
\* the elements of channels [g * group-input-channels,
\* (g + 1) * group-input-channels) at position p of the channels-last image,
\* for every group count.
C15_PointwiseOperandIsGroupRow ==
    InPlacePointwise =>
        \A gc \in gemm_calls :
            \A r \in 0..(gc.output_count - 1), k \in 0..(call.kernel_dim - 1) :
                gc.A[r][k] = (gc.output_start + r) * call.conv.C
                                 + gc.group_id * call.group_input_channels + k

\* the filter of the call: the input of the call, or the one PrePack took
CallFilter == IF call.W.present THEN call.W ELSE prepack_call.W

\* the call of the example has finished its tiles and its output transpose
ExampleCallDone ==
    /\ call.pc = "done"
    /\ ~channels_last_ /\ group = 1 /\ strides = 1
    /\ call.X = Tensor(<<1, 1, 3, 3>>, ConstData(9, 2))
    /\ CallFilter = Tensor(<<1, 1, 2, 2>>, ConstData(4, 1))
    /\ call.zp.X = 0 /\ call.zp.W = 0 /\ call.zp.Y = 0
    /\ call.sc.X = 1 /\ call.sc.Y = 1 /\ call.sc.scales = <<1>>

\* C13: for the channel-first X of shape [1,1,3,3] with every element 2 and
\* the filter of shape [1,1,2,2] with every element 1, all scales 1, all zero
\* points 0, group 1, no padding, stride 1 and dilation 1, every accumulator
\* is 8 and the output has shape [1,1,2,2] with every element 8, with or
\* without a preceding PrePack of the filter.
C13_ExampleOutputIsEight ==
    ExampleCallDone =>
        /\ gemm_output = <<8, 8, 8, 8>>
        /\ call.conv.Y_dims = <<1, 1, 2, 2>>
        /\ Ydata = <<8, 8, 8, 8>>

\* the example, after a PrePack of the filter, computed by two tiles
C13_Witness ==
    /\ ExampleCallDone
    /\ is_W_packed_ /\ prepack_call.is_packed
    /\ call.thread_count = 2

\* the example with the filter as an input of the call
ExampleWithoutPrePack == ExampleCallDone /\ ~is_W_packed_ /\ call.W.present

\* the filter of the finished call can be held in either representation
EitherRepresentation ==
    /\ call.pc = "done"
    /\ ~call.is_depthwise_conv
    /\ ShouldPack(call.group_input_channels, call.group_output_channels)

\* element (k, n) of group group_id's B operand in the representation the
\* call did not use, built from the same filter
OtherRepresentationB(group_id, k, n) ==
    LET W == CallFilter
        cv == call.conv
    IN  IF packed_W_buffer_.held
          THEN ReorderedB(ReorderFilter(W.data, cv.M, W.dims[2], cv.kernel_size),
                          group_id, call.group_output_channels, cv.M, k, n)
          ELSE PackedB(PackGroups(W.data, call.group_count, call.group_output_channels,
                                  call.group_input_channels, cv.kernel_size)[group_id + 1],
                       call.kernel_dim, k, n)

\* the accumulator of output position p and channel n of group group_id, for
\* the A operand row of the call and the other representation's B operand
OtherRepresentationAcc(gc, r, n) ==
    Sum([k \in 0..(call.kernel_dim - 1) |->
            (At(input_data, gc.A[r][k]) - call.zp.X)
            * (OtherRepresentationB(gc.group_id, k, n) - call.zp.W)],
        0..(call.kernel_dim - 1))

\* C12: for the same input, filter and quantization parameters the output is
\* the same whether the filter is held as per-group packed blocks (block g
\* built from group g's reordered filter, leading dimension
\* group-output-channels) or as the whole reordered filter (group g at column
\* g * group-output-channels, leading dimension M).
C12_PackedEqualsReordered ==
    EitherRepresentation =>
        /\ Cardinality(gemm_calls) = call.thread_count * call.group_count
        /\ \A gc \in gemm_calls :
              \A r \in 0..(gc.output_count - 1), n \in 0..(call.group_output_channels - 1) :
                 LET p == gc.output_start + r
                     m == gc.group_id * call.group_output_channels + n
                     M == call.conv.M
                     acc == OtherRepresentationAcc(gc, r, n)
                 IN  /\ At(gemm_output, p * M + m) = acc
                     /\ At(Ydata, IF channels_last_ THEN p * M + m
                                  ELSE m * call.conv.output_image_size + p)
                           = MlasRequantize(acc, call.sc.scales[1], call.zp.Y)

\* a two-group filter of distinct elements, packed, convolved by two tiles
\* with an image of distinct elements
C12_Witness ==
    /\ EitherRepresentation
    /\ packed_W_buffer_.held /\ group = 2
    /\ CallFilter.data = Ramp(Len(CallFilter.data))
    /\ call.X.data = Ramp(Len(call.X.data))
    /\ call.conv.kernel_size = 4
    /\ call.thread_count = 2

\* the same filter, held reordered because the backend has no packed kernel
ReorderedWhenPackUnsupported ==
    /\ EitherRepresentation
    /\ reordered_W_buffer_.held /\ group = 2
    /\ CallFilter.data = Ramp(Len(CallFilter.data))

\* the inputs of the call in progress
CallInputs == [X |-> call.X, W |-> call.W]

\* the filter representation the workers of the call read
FilterRepresentation == <<packed_W_contents, packed_W_size_,
                          IF call.pc = "idle" THEN <<>> ELSE call.reordered_W>>

\* every element of the representation has been written
RepresentationComplete ==
    IF packed_W_buffer_.held
      THEN /\ Len(packed_W_contents) = call.group_count
           /\ \A g \in 1..call.group_count : Len(packed_W_contents[g]) = packed_W_size_
      ELSE /\ Len(call.reordered_W) = ShapeSize(CallFilter.dims)
           /\ call.reordered_W = ReorderFilter(CallFilter.data, CallFilter.dims[1],
                                               CallFilter.dims[2], call.conv.kernel_size)

\* a step of a Compute call
ComputeStep == call.pc # "idle" \/ call'.pc # "idle"

\* C11: a Compute call produces the output that every earlier call of the
\* kernel instance with identical inputs produced, whatever calls came in
\* between and in whatever order the tiles ran; no step of Compute changes
\* the kernel instance (saved filter shape, signedness, buffers and their
\* contents, flags); and the filter representation is completely written
\* before the first tile is dispatched and not written while tiles run.
C11_ComputeIsDeterministic ==
    /\ [](call.pc = "done" =>
             /\ \A c \in completed : c[1] = CallInputs => c[2] = Ydata
             /\ \A i \in 1..Len(Ydata) : Ydata[i] # Indeterminate)
    /\ [][ComputeStep => UNCHANGED dataKernel]_vars
    /\ [](tiles # <<>> => RepresentationComplete)
    /\ [][tiles # <<>> /\ call'.pc # "idle" =>
             FilterRepresentation' = FilterRepresentation]_vars

\* a call whose tiles ran on two workers returns what an earlier call with
\* the same inputs returned, a call with other inputs having returned too
C11_Witness ==
    /\ call.pc = "done" /\ call.thread_count = 2
    /\ call.X.data = Ramp(Len(call.X.data))
    /\ \E c \in completed : c[1] = CallInputs /\ c[2] = Ydata
    /\ \E c \in completed : c[1] # CallInputs /\ c[2] # Ydata

====
